---------------------------- MODULE Spec2Model ----------------------------
(***************************************************************************)
(* Socratic Tales: the generation orchestration of the App component       *)
(* (submit / follow-up / reset, text generation followed by the parallel   *)
(* speech and illustration calls) and the rolling topic history.           *)
(*                                                                         *)
(* Nullable values of the program (T | null) are modelled as sequences of  *)
(* length at most one: NULL is <<>> and a present value v is <<v>>.        *)
(***************************************************************************)
EXTENDS Naturals, Sequences, FiniteSets, Bags

VARIABLES
    appState,        \* useState<AppState>('IDLE')
    storyData,       \* useState<StoryResponse | null>(null)
    audioUrl,        \* useState<string | null>(null)
    imageUrl,        \* useState<string | null>(null)
    errorMsg,        \* useState<string | null>(null)
    previousTopics,  \* useState<string[]>([])
    currentFile,     \* useState<File | null>(null)
    currentContext,  \* useState<ChildContext>({childName:'', characterName:''})
    calls,           \* the invocations of processStoryGeneration suspended at an await (a bag)
    finished,        \* history: how the invocation that returned last ended
    turns,           \* history: number of turns started so far
    started,         \* history: a turn has been started since the last reset
    appended,        \* history: concepts of the turns whose text call succeeded since the last reset
    submitted,       \* history: inputs of the most recent top-level submission since the last reset
    io               \* history: the last input handed to a function under study and what it returned

vars == <<appState, storyData, audioUrl, imageUrl, errorMsg, previousTopics,
          currentFile, currentContext, calls, finished, turns, started,
          appended, submitted, io>>

\* the state of the App component and its invocations
appVars == <<appState, storyData, audioUrl, imageUrl, errorMsg, previousTopics,
             currentFile, currentContext, calls, finished, turns, started,
             appended, submitted>>

-----------------------------------------------------------------------------
(* Bounds *)

MaxTurns == 4      \* turns started in one run
MaxCalls == 2      \* invocations of processStoryGeneration suspended at once

-----------------------------------------------------------------------------
(* Values *)

NULL == <<>>
Some(v) == <<v>>


EmptyContext == [childName |-> "", characterName |-> ""]

\* what InputSection hands to onSubmit: (selectedFile, question, {childName, characterName})
Submissions ==
    { [file |-> NULL, question |-> "q1", context |-> EmptyContext],
      [file |-> Some("img1"), question |-> "q2",
       context |-> [childName |-> "Ana", characterName |-> "Fluff"]] }

ErrorText == "Oops! The magic wand sputtered. Please try again!"

\* The JSON documents the text generator may answer with, by token.
\* "A" and "B" have the shape of StoryResponse; "C" has no visuals and "D" has a
\* meta without educational_concept.
StoryOf(doc) ==
    CASE doc = "A" ->
           [meta |-> [educational_concept |-> "gravity"],
            storyboard |-> [audio_text |-> "speakA", suggested_questions |-> <<"q2">>],
            visuals |-> [image_prompt |-> "drawA"]]
      [] doc = "B" ->
           [meta |-> [educational_concept |-> "rain"],
            storyboard |-> [audio_text |-> "speakB", suggested_questions |-> <<"q1", "q2">>],
            visuals |-> [image_prompt |-> "drawB"]]
      [] doc = "C" ->
           [meta |-> [educational_concept |-> "tides"],
            storyboard |-> [audio_text |-> "speakC", suggested_questions |-> <<"q1">>]]
      [] doc = "D" ->
           [meta |-> [age_group |-> "4-8"],
            storyboard |-> [audio_text |-> "speakD", suggested_questions |-> <<"q1">>],
            visuals |-> [image_prompt |-> "drawD"]]

Docs == {"A", "B"}
PartialDocs == {"C", "D"}

\* object.name in JavaScript: undefined when the object has no such property
prop(object, name) == IF name \in DOMAIN object THEN object[name] ELSE "undefined"
FenceOpen == "<fence-open>"    \* the text ```json followed by a newline
FenceClose == "<fence-close>"  \* a newline followed by ```
WhiteSpace == "<white-space>"  \* a run of blanks and newlines that is part of no fence

\* response.text of the text-generation call, as a sequence of tokens
TextBodies == { <<>>, <<"junk">>, <<"A">>, <<FenceOpen, "B", FenceClose>> }

\* what the awaited ai.models.generateContent call does: throws, or answers with a body
TextResponses == {[throws |-> TRUE, text |-> <<>>]} \cup
                 {[throws |-> FALSE, text |-> b] : b \in TextBodies}

-----------------------------------------------------------------------------
(* geminiService.generateStory: the handling of the response *)

\* only the opening fence is removed
RECURSIVE StripFencesOpenOnly(_)
StripFencesOpenOnly(text) ==
    IF text = <<>> THEN <<>>
    ELSE IF Head(text) = FenceOpen
         THEN StripFencesOpenOnly(Tail(text))
         ELSE <<Head(text)>> \o StripFencesOpenOnly(Tail(text))

\* text.replace(/```json\n|\n```/g, ""): every occurrence of either fence is removed
RECURSIVE StripFences(_)
StripFences(text) ==
    IF text = <<>> THEN <<>>
    ELSE IF Head(text) \in {FenceOpen, FenceClose}
         THEN StripFences(Tail(text))
         ELSE <<Head(text)>> \o StripFences(Tail(text))

\* string.trim(): the white space at both ends is removed
RECURSIVE trim(_)
trim(text) ==
    IF text = <<>> THEN <<>>
    ELSE IF Head(text) = WhiteSpace THEN trim(Tail(text))
    ELSE IF text[Len(text)] = WhiteSpace THEN trim(SubSeq(text, 1, Len(text) - 1))
    ELSE text

\* [ok |-> TRUE, story |-> s] when the promise fulfils, ok = FALSE when it rejects
generateStory(resp) ==
    IF resp.throws THEN [ok |-> FALSE, story |-> NULL]
    ELSE IF resp.text = <<>> THEN [ok |-> FALSE, story |-> NULL]
    ELSE LET jsonStr == trim(StripFences(resp.text))
         IN  IF Len(jsonStr) = 1 /\ jsonStr[1] \in Docs \cup PartialDocs
             THEN [ok |-> TRUE, story |-> Some(StoryOf(jsonStr[1]))]
             ELSE [ok |-> FALSE, story |-> NULL]

\* the handles the media calls resolve to
generateSpeech(text) == <<"blob:audio/wav", text>>
generateIllustration(prompt) == <<"data:image/png;base64", prompt>>

-----------------------------------------------------------------------------
(* geminiService.generateStory: the request (lines 136-162).  A string built *)
(* by a template literal is the sequence of its pieces.                      *)

\* File.type of the image files
FileType(file) == IF file = "img1" THEN "image/png" ELSE "image/jpeg"

\* FileReader.readAsDataURL(file): "data:<type>;base64,<content>", here already
\* split at the comma
readAsDataURL(file) == <<<<"data:", FileType(file), ";base64">>, <<"base64 of", file>>>>

\* fileToGenerativePart(file): base64String.split(',')[1]
fileToGenerativePart(file) == readAsDataURL(file)[2]

\* JSON.stringify of an object given as a sequence of <<key, value>> pairs, in
\* the order of its keys
stringify(object) == <<"{">> \o object \o <<"}">>

\* the context without the default for the child's name
contextPromptNoDefault(childContext, topics) ==
    stringify(<< <<"child_name", childContext.childName>>,
                 <<"character_name", childContext.characterName>>,
                 <<"prev_topics", topics>> >>)

\* lines 136-140; a || b is b when a is the empty string
contextPrompt(childContext, topics) ==
    stringify(<< <<"child_name", IF childContext.childName = "" THEN "Friend"
                                 ELSE childContext.childName>>,
                 <<"character_name", IF childContext.characterName = "" THEN ""
                                     ELSE childContext.characterName>>,
                 <<"prev_topics", topics>> >>)

InventCharacterNote ==
    "(NOTE: The user did not provide a drawing. Please invent a creative, friendly character suitable for the story's theme and describe them in the visuals.image_prompt.)"

\* the instruction appended whether or not there is an image
textPromptAlwaysNote(imageFile, question, context) ==
    <<"User Question: ", question, "Context: ", context>> \o <<InventCharacterNote>>

\* lines 156-160
textPrompt(imageFile, question, context) ==
    <<"User Question: ", question, "Context: ", context>>
        \o (IF imageFile = NULL THEN <<InventCharacterNote>> ELSE <<>>)

\* the text pushed before the image
requestPartsTextFirst(imageFile, question, childContext, topics) ==
    LET text == textPrompt(imageFile, question,
                           contextPrompt(childContext, topics))
        image == IF imageFile # NULL
                 THEN <<[inlineData |-> [mimeType |-> FileType(imageFile[1]),
                                         data |-> fileToGenerativePart(imageFile[1])]]>>
                 ELSE <<>>
    IN  <<[text |-> text]>> \o image

\* the parts of the request: lines 142-162
requestParts(imageFile, question, childContext, topics) ==
    LET text == textPrompt(imageFile, question,
                           contextPrompt(childContext, topics))
        image == IF imageFile # NULL
                 THEN <<[inlineData |-> [mimeType |-> FileType(imageFile[1]),
                                         data |-> fileToGenerativePart(imageFile[1])]]>>
                 ELSE <<>>
    IN  image \o <<[text |-> text]>>

-----------------------------------------------------------------------------
(* geminiService.pcmToWav: the WAV container around raw PCM bytes.          *)
(*                                                                          *)
(* A JavaScript number is modelled by its little-endian base-256 digits,    *)
(* so that values up to and beyond 2^32 keep their exact value; DataView's  *)
(* setUint32 and setUint16 keep the low 4 and 2 digits (value mod 2^32 and  *)
(* mod 2^16).  A buffer is a function from the byte offsets 0..size-1.      *)

MaxPcm == 3        \* bytes of a PCM payload

Byte == 0 .. 255

\* the digits of the natural number n, least significant first, no leading zeros
RECURSIVE Num(_)
Num(n) == IF n = 0 THEN <<>> ELSE <<n % 256>> \o Num(n \div 256)

\* digits without the zeros at the most significant end
RECURSIVE Normal(_)
Normal(d) ==
    IF d # <<>> /\ d[Len(d)] = 0 THEN Normal(SubSeq(d, 1, Len(d) - 1)) ELSE d

\* digits of d * k + carry, for a small factor k
RECURSIVE MulAdd(_, _, _)
MulAdd(d, k, carry) ==
    IF d = <<>> THEN Num(carry)
    ELSE LET v == Head(d) * k + carry
         IN  <<v % 256>> \o MulAdd(Tail(d), k, v \div 256)

Mul(d, k) == Normal(MulAdd(d, k, 0))

\* digits of (rem * 256^Len(d) + d) divided by k, for a small divisor k
RECURSIVE DivRem(_, _, _)
DivRem(d, k, rem) ==
    IF d = <<>> THEN <<>>
    ELSE LET v == rem * 256 + d[Len(d)]
         IN  DivRem(SubSeq(d, 1, Len(d) - 1), k, v % k) \o <<v \div k>>

Div(d, k) == Normal(DivRem(d, k, 0))

\* the w low digits of d, padded with zeros: the bytes setUint<8w>(.., .., true) writes
LowBytes(d, w) == [i \in 1 .. w |-> IF i <= Len(d) THEN d[i] ELSE 0]

\* the buffer buf with bytes written from offset on
SetBytes(buf, offset, bytes) ==
    [i \in DOMAIN buf |->
        IF offset <= i /\ i < offset + Len(bytes) THEN bytes[i - offset + 1] ELSE buf[i]]

\* view.setUint32(offset, value, true)
setUint32(buf, offset, value) == SetBytes(buf, offset, LowBytes(value, 4))

\* view.setUint16(offset, value, true)
setUint16(buf, offset, value) == SetBytes(buf, offset, LowBytes(value, 2))

\* string.charCodeAt(i) for the characters of the chunk tags
charCodeAt(ch) ==
    CASE ch = "R" -> 82  [] ch = "I" -> 73  [] ch = "F" -> 70  [] ch = "W" -> 87
      [] ch = "A" -> 65  [] ch = "V" -> 86  [] ch = "E" -> 69  [] ch = "f" -> 102
      [] ch = "m" -> 109 [] ch = "t" -> 116 [] ch = " " -> 32  [] ch = "d" -> 100
      [] ch = "a" -> 97

\* writeString(view, offset, string): one setUint8 per character
writeString(buf, offset, string) ==
    SetBytes(buf, offset, [i \in 1 .. Len(string) |-> charCodeAt(string[i])])

\* a header that counts the 8 bytes of the RIFF chunk header into its size
pcmToWavRiffSizeOff(pcmData, sampleRate) ==
    LET dataSize == Len(pcmData)
        b0 == [i \in 0 .. (44 + dataSize - 1) |-> 0]
        b1 == writeString(b0, 0, <<"R", "I", "F", "F">>)
        b2 == setUint32(b1, 4, Num(44 + dataSize))
        b3 == writeString(b2, 8, <<"W", "A", "V", "E">>)
        b4 == writeString(b3, 12, <<"f", "m", "t", " ">>)
        b5 == setUint32(b4, 16, Num(16))
        b6 == setUint16(b5, 20, Num(1))
        b7 == setUint16(b6, 22, Num(1))
        b8 == setUint32(b7, 24, sampleRate)
        b9 == setUint32(b8, 28, Div(Mul(Mul(sampleRate, 1), 16), 8))
        b10 == setUint16(b9, 32, Num((1 * 16) \div 8))
        b11 == setUint16(b10, 34, Num(16))
        b12 == writeString(b11, 36, <<"d", "a", "t", "a">>)
        b13 == setUint32(b12, 40, Num(dataSize))
    IN  SetBytes(b13, 44, pcmData)

\* a header whose byte rate forgets the sample width
pcmToWavByteRateOff(pcmData, sampleRate) ==
    LET dataSize == Len(pcmData)
        b0 == [i \in 0 .. (44 + dataSize - 1) |-> 0]
        b1 == writeString(b0, 0, <<"R", "I", "F", "F">>)
        b2 == setUint32(b1, 4, Num(36 + dataSize))
        b3 == writeString(b2, 8, <<"W", "A", "V", "E">>)
        b4 == writeString(b3, 12, <<"f", "m", "t", " ">>)
        b5 == setUint32(b4, 16, Num(16))
        b6 == setUint16(b5, 20, Num(1))
        b7 == setUint16(b6, 22, Num(1))
        b8 == setUint32(b7, 24, sampleRate)
        b9 == setUint32(b8, 28, Mul(sampleRate, 1))
        b10 == setUint16(b9, 32, Num((1 * 16) \div 8))
        b11 == setUint16(b10, 34, Num(16))
        b12 == writeString(b11, 36, <<"d", "a", "t", "a">>)
        b13 == setUint32(b12, 40, Num(dataSize))
    IN  SetBytes(b13, 44, pcmData)

\* pcmToWav(pcmData, sampleRate), lines 93-127
pcmToWav(pcmData, sampleRate) ==
    LET numChannels == 1
        bitsPerSample == 16
        byteRate == Div(Mul(Mul(sampleRate, numChannels), bitsPerSample), 8)
        blockAlign == (numChannels * bitsPerSample) \div 8
        dataSize == Len(pcmData)
        b0 == [i \in 0 .. (44 + dataSize - 1) |-> 0]
        b1 == writeString(b0, 0, <<"R", "I", "F", "F">>)
        b2 == setUint32(b1, 4, Num(36 + dataSize))
        b3 == writeString(b2, 8, <<"W", "A", "V", "E">>)
        b4 == writeString(b3, 12, <<"f", "m", "t", " ">>)
        b5 == setUint32(b4, 16, Num(16))
        b6 == setUint16(b5, 20, Num(1))
        b7 == setUint16(b6, 22, Num(numChannels))
        b8 == setUint32(b7, 24, sampleRate)
        b9 == setUint32(b8, 28, byteRate)
        b10 == setUint16(b9, 32, Num(blockAlign))
        b11 == setUint16(b10, 34, Num(bitsPerSample))
        b12 == writeString(b11, 36, <<"d", "a", "t", "a">>)
        b13 == setUint32(b12, 40, Num(dataSize))
    IN  SetBytes(b13, 44, pcmData)

\* the bytes a PCM payload is made of in the runs
PcmBytes == {0, 1, 255}

\* the sequences over S of length at most n
RECURSIVE SeqsUpTo(_, _)
SeqsUpTo(S, n) ==
    IF n = 0 THEN {<<>>}
    ELSE LET shorter == SeqsUpTo(S, n - 1)
         IN  shorter \cup {Append(q, x) : q \in shorter, x \in S}

PcmInputs == SeqsUpTo(PcmBytes, MaxPcm)

\* sample rates: 0, 1, 24000 (the one generateSpeech passes), 44100, 2^31 - 1, 2^31,
\* 2^32 - 1, by their digits
SampleRates ==
    { <<>>, <<1>>, <<192, 93>>, <<68, 172>>, <<255, 255, 255, 127>>,
      <<0, 0, 0, 128>>, <<255, 255, 255, 255>> }

-----------------------------------------------------------------------------
(* geminiService.generateSpeech: from the response to the WAV behind the URL. *)
(* A base64 string is the sequence of the 6-bit values of its characters.     *)

\* window.atob: fails on a length of 4k+1 characters, else 4 characters give 3
\* bytes and a rest of 2 or 3 characters gives 1 or 2 bytes
RECURSIVE atob(_)
atob(s) ==
    IF Len(s) = 0 THEN [ok |-> TRUE, bytes |-> <<>>]
    ELSE IF Len(s) = 1 THEN [ok |-> FALSE, bytes |-> <<>>]
    ELSE LET b1 == s[1] * 4 + s[2] \div 16
             b2 == (s[2] % 16) * 16 + s[3] \div 4
             b3 == (s[3] % 4) * 64 + s[4]
         IN  IF Len(s) = 2 THEN [ok |-> TRUE, bytes |-> <<b1>>]
             ELSE IF Len(s) = 3 THEN [ok |-> TRUE, bytes |-> <<b1, b2>>]
             ELSE LET rest == atob(SubSeq(s, 5, Len(s)))
                  IN  [ok |-> rest.ok, bytes |-> <<b1, b2, b3>> \o rest.bytes]

\* inlineData.data of the speech response: "", one character (not base64), and
\* payloads of 1, 2, 3 and 4 bytes
Base64Payloads ==
    { <<>>, <<0>>, <<0, 16>>, <<0, 16, 8>>, <<0, 16, 8, 3>>, <<0, 16, 8, 3, 63, 48>> }

\* what the awaited ai.models.generateContent call of generateSpeech does: throws,
\* answers without audio data, or answers with a base64 string
SpeechResponses ==
    {[throws |-> TRUE, data |-> NULL], [throws |-> FALSE, data |-> NULL]} \cup
    {[throws |-> FALSE, data |-> Some(p)] : p \in Base64Payloads}

\* lines 201-217: [ok |-> TRUE, wav |-> w] when the promise fulfils with the URL of
\* a blob holding w, ok = FALSE when it rejects
speechAudio(resp) ==
    IF resp.throws THEN [ok |-> FALSE, wav |-> NULL]
    ELSE IF resp.data = NULL \/ resp.data = Some(<<>>) THEN [ok |-> FALSE, wav |-> NULL]
    ELSE LET binaryString == atob(resp.data[1])
         IN  IF ~binaryString.ok THEN [ok |-> FALSE, wav |-> NULL]
             ELSE [ok |-> TRUE, wav |-> Some(pcmToWav(binaryString.bytes, Num(24000)))]

-----------------------------------------------------------------------------
(* The topic history *)

\* slice(0, 3) in place of slice(-3): the oldest topics are kept
SliceFirst3(s) ==
    IF Len(s) <= 3 THEN s ELSE SubSeq(s, 1, 3)

\* no slice at all: the history grows without bound
NoSlice(s) == s

\* newHistory.slice(-3)
SliceLast3(s) ==
    IF Len(s) <= 3 THEN s ELSE SubSeq(s, Len(s) - 2, Len(s))

\* setPreviousTopics(prev => [...prev, concept].slice(-3))
AppendTopic(prev, concept) == SliceLast3(Append(prev, concept))

-----------------------------------------------------------------------------
(* Invocations of processStoryGeneration *)

\* the state of one invocation suspended at an await: the arguments it was called
\* with, the story it holds, the outcomes Promise.allSettled has collected and, as
\* history, how many calls of each service it has made
NewCall(followUp, file, question, context, topics) ==
    [pc |-> "text", followUp |-> followUp, file |-> file, question |-> question,
     context |-> context, prevTopics |-> topics, story |-> NULL,
     audio |-> "none", image |-> "none", stale |-> FALSE,
     issued |-> [text |-> 1, speech |-> 0, image |-> 0]]

\* the request the invocation sent is history once generateStory has returned or
\* the session it was sent in has been reset: nothing reads it again
Settled(c) ==
    [c EXCEPT !.followUp = FALSE, !.file = NULL, !.question = "",
              !.context = EmptyContext, !.prevTopics = <<>>]

Stale(c) == [Settled(c) EXCEPT !.stale = TRUE]

Pending == BagToSet(calls)

\* the invocation c moves on to c2
Step(c, c2) == (calls (-) SetToBag({c})) (+) SetToBag({c2})

\* the invocation c returns
Return(c) == calls (-) SetToBag({c})

\* the record of how the invocation that returned last ended: the outcomes of its
\* three calls; an invocation from before the last reset leaves none
Finish(c, text, audio, image) ==
    IF c.stale THEN NULL
    ELSE Some([text |-> text, audio |-> audio, image |-> image, logged |-> {},
               issued |-> c.issued])

\* console.error: the record f with the diagnostics the invocation wrote
consoleError(f, messages) ==
    IF f = NULL THEN NULL ELSE Some([f[1] EXCEPT !.logged = messages])

InitApp ==
    /\ appState = "IDLE"
    /\ storyData = NULL
    /\ audioUrl = NULL
    /\ imageUrl = NULL
    /\ errorMsg = NULL
    /\ previousTopics = <<>>
    /\ currentFile = NULL
    /\ currentContext = EmptyContext
    /\ calls = EmptyBag
    /\ finished = NULL
    /\ turns = 0
    /\ started = FALSE
    /\ appended = <<>>
    /\ submitted = NULL

Init == InitApp /\ io = NULL

\* a handler that closes over the topics of the first render: the snapshot is empty
processStoryGenerationStaleSnapshot(followUp, file, question, context) ==
    /\ turns < MaxTurns
    /\ BagCardinality(calls) < MaxCalls
    /\ appState' = "ANALYZING"
    /\ errorMsg' = NULL
    /\ audioUrl' = NULL
    /\ imageUrl' = NULL
    /\ calls' = calls (+) SetToBag({NewCall(followUp, file, question, context, <<>>)})
    /\ finished' = NULL
    /\ turns' = turns + 1
    /\ started' = TRUE
    /\ UNCHANGED <<storyData, previousTopics, appended>>

\* a turn start that leaves the media of the turn before in place
processStoryGenerationKeepsMedia(followUp, file, question, context) ==
    /\ turns < MaxTurns
    /\ BagCardinality(calls) < MaxCalls
    /\ appState' = "ANALYZING"
    /\ errorMsg' = NULL
    /\ calls' = calls (+) SetToBag({NewCall(followUp, file, question, context,
                                            previousTopics)})
    /\ finished' = NULL
    /\ turns' = turns + 1
    /\ started' = TRUE
    /\ UNCHANGED <<storyData, previousTopics, appended, audioUrl, imageUrl>>

\* processStoryGeneration up to its first await (lines 30-38)
processStoryGeneration(followUp, file, question, context) ==
    /\ turns < MaxTurns
    /\ BagCardinality(calls) < MaxCalls
    /\ appState' = "ANALYZING"
    /\ errorMsg' = NULL
    /\ audioUrl' = NULL
    /\ imageUrl' = NULL
    /\ calls' = calls (+) SetToBag({NewCall(followUp, file, question, context,
                                            previousTopics)})
    /\ finished' = NULL
    /\ turns' = turns + 1
    /\ started' = TRUE
    /\ UNCHANGED <<storyData, previousTopics, appended>>

\* a submission that sends its inputs to the text call without retaining them
handleStartAdventureNotRetained(file, question, context) ==
    /\ submitted' = Some([file |-> file, context |-> context])
    /\ processStoryGeneration(FALSE, file, question, context)
    /\ UNCHANGED <<currentFile, currentContext>>

handleStartAdventure(file, question, context) ==
    /\ currentFile' = file
    /\ currentContext' = context
    /\ submitted' = Some([file |-> file, context |-> context])
    /\ processStoryGeneration(FALSE, file, question, context)

\* a follow-up that does not reuse the retained file
handleSuggestedQuestionClickNoFile(question) ==
    /\ processStoryGeneration(TRUE, NULL, question, currentContext)
    /\ UNCHANGED <<currentFile, currentContext, submitted>>

handleSuggestedQuestionClick(question) ==
    /\ processStoryGeneration(TRUE, currentFile, question, currentContext)
    /\ UNCHANGED <<currentFile, currentContext, submitted>>

\* the alternative the comment at line 93 weighs: the history survives a reset
handleResetKeepsTopics ==
    /\ appState' = "IDLE"
    /\ storyData' = NULL
    /\ audioUrl' = NULL
    /\ imageUrl' = NULL
    /\ errorMsg' = NULL
    /\ currentFile' = NULL
    /\ currentContext' = EmptyContext
    /\ calls' = BagOfAll(Stale, calls)
    /\ finished' = NULL
    /\ submitted' = NULL
    /\ started' = FALSE
    /\ UNCHANGED <<turns, previousTopics, appended>>

handleReset ==
    /\ appState' = "IDLE"
    /\ storyData' = NULL
    /\ audioUrl' = NULL
    /\ imageUrl' = NULL
    /\ errorMsg' = NULL
    /\ previousTopics' = <<>>
    /\ currentFile' = NULL
    /\ currentContext' = EmptyContext
    /\ calls' = BagOfAll(Stale, calls)
    /\ finished' = NULL
    /\ appended' = <<>>
    /\ submitted' = NULL
    /\ started' = FALSE
    /\ UNCHANGED turns

\* the media calls are made with the texts of the story held before, if any
TextFulfilledOldStory(c, story) ==
    LET concept == prop(story.meta, "educational_concept")
        inputs == IF storyData = NULL THEN story ELSE storyData[1]
    IN  /\ storyData' = Some(story)
        /\ previousTopics' = AppendTopic(previousTopics, concept)
        /\ appended' = Append(appended, concept)
        /\ appState' = "GENERATING_MEDIA"
        /\ calls' = Step(c, [Settled(c) EXCEPT !.pc = "media", !.story = Some(inputs),
                                               !.audio = "pending", !.image = "pending"])
        /\ UNCHANGED <<audioUrl, imageUrl, errorMsg, finished>>

\* the awaited generateStory fulfils: lines 39-55.  Building the argument list of
\* Promise.allSettled reads story.storyboard.audio_text and story.visuals.image_prompt;
\* on a story without storyboard or visuals that throws a TypeError inside the inner
\* try, and the catch at line 69 leads straight to line 73.
TextFulfilled(c, story) ==
    LET concept == prop(story.meta, "educational_concept")
    IN  /\ storyData' = Some(story)
        /\ previousTopics' = AppendTopic(previousTopics, concept)
        /\ appended' = Append(appended, concept)
        /\ IF "storyboard" \in DOMAIN story /\ "visuals" \in DOMAIN story
           THEN /\ appState' = "GENERATING_MEDIA"
                /\ calls' = Step(c, [Settled(c) EXCEPT !.pc = "media", !.story = Some(story),
                                                       !.audio = "pending", !.image = "pending",
                                                       !.issued.speech = @ + 1,
                                                       !.issued.image = @ + 1])
                /\ UNCHANGED <<audioUrl, imageUrl, errorMsg, finished>>
           ELSE /\ appState' = "PLAYING"
                /\ calls' = Return(c)
                /\ finished' =
                     consoleError(Finish(IF "storyboard" \in DOMAIN story
                                         THEN [c EXCEPT !.issued.speech = @ + 1] ELSE c,
                                         "fulfilled", "none", "none"),
                                  {"Media generation error"})
                /\ UNCHANGED <<audioUrl, imageUrl, errorMsg>>

\* a catch block that also drops the topic history
TextRejectedClearsTopics(c) ==
    /\ errorMsg' = Some(ErrorText)
    /\ appState' = "ERROR"
    /\ previousTopics' = <<>>
    /\ calls' = Return(c)
    /\ finished' = Finish(c, "rejected", "none", "none")
    /\ UNCHANGED <<storyData, appended, audioUrl, imageUrl>>

\* a rejected text call is made once more before the turn is given up
TextRejectedRetries(c) ==
    IF c.issued.text = 1
    THEN /\ calls' = Step(c, [c EXCEPT !.issued.text = @ + 1])
         /\ UNCHANGED <<errorMsg, appState, finished, storyData, previousTopics,
                        appended, audioUrl, imageUrl>>
    ELSE /\ errorMsg' = Some(ErrorText)
         /\ appState' = "ERROR"
         /\ calls' = Return(c)
         /\ finished' = Finish(c, "rejected", "none", "none")
         /\ UNCHANGED <<storyData, previousTopics, appended, audioUrl, imageUrl>>

\* a catch block that enters the error state without a message
TextRejectedNoMessage(c) ==
    /\ appState' = "ERROR"
    /\ calls' = Return(c)
    /\ finished' = consoleError(Finish(c, "rejected", "none", "none"),
                                {"Story generation failed:"})
    /\ UNCHANGED <<errorMsg, storyData, previousTopics, appended, audioUrl, imageUrl>>

\* the awaited generateStory rejects: lines 75-79
TextRejected(c) ==
    /\ errorMsg' = Some(ErrorText)
    /\ appState' = "ERROR"
    /\ calls' = Return(c)
    /\ finished' = consoleError(Finish(c, "rejected", "none", "none"),
                                {"Story generation failed:"})
    /\ UNCHANGED <<storyData, previousTopics, appended, audioUrl, imageUrl>>

TextSettles(c, resp) ==
    /\ c.pc = "text"
    /\ LET r == generateStory(resp)
       IN  IF r.ok THEN TextFulfilled(c, r.story[1]) ELSE TextRejected(c)
    /\ UNCHANGED <<currentFile, currentContext, turns, started, submitted>>

\* Promise.all in place of Promise.allSettled: one rejection discards both results
MediaJoinAllOrNothing(c, audio, image) ==
    LET story == c.story[1]
        both == audio = "fulfilled" /\ image = "fulfilled"
    IN  /\ audioUrl' = IF both
                       THEN Some(generateSpeech(story.storyboard.audio_text))
                       ELSE audioUrl
        /\ imageUrl' = IF both
                       THEN Some(generateIllustration(story.visuals.image_prompt))
                       ELSE imageUrl
        /\ appState' = "PLAYING"
        /\ calls' = Return(c)
        /\ finished' = Finish(c, "fulfilled", audio, image)

\* a turn without any media is treated as failed
MediaJoinErrorWhenBothFail(c, audio, image) ==
    LET story == c.story[1]
    IN  /\ audioUrl' = IF audio = "fulfilled"
                       THEN Some(generateSpeech(story.storyboard.audio_text))
                       ELSE audioUrl
        /\ imageUrl' = IF image = "fulfilled"
                       THEN Some(generateIllustration(story.visuals.image_prompt))
                       ELSE imageUrl
        /\ appState' = IF audio = "rejected" /\ image = "rejected" THEN "ERROR" ELSE "PLAYING"
        /\ calls' = Return(c)
        /\ finished' = Finish(c, "fulfilled", audio, image)

\* setAppState('PLAYING') is reached only when a media call has fulfilled
MediaJoinNoPlayingWhenBothFail(c, audio, image) ==
    LET story == c.story[1]
    IN  /\ audioUrl' = IF audio = "fulfilled"
                       THEN Some(generateSpeech(story.storyboard.audio_text))
                       ELSE audioUrl
        /\ imageUrl' = IF image = "fulfilled"
                       THEN Some(generateIllustration(story.visuals.image_prompt))
                       ELSE imageUrl
        /\ appState' = IF audio = "rejected" /\ image = "rejected"
                       THEN appState ELSE "PLAYING"
        /\ calls' = Return(c)
        /\ finished' = Finish(c, "fulfilled", audio, image)

\* the rejections are dropped without a trace
MediaJoinSilent(c, audio, image) ==
    LET story == c.story[1]
    IN  /\ audioUrl' = IF audio = "fulfilled"
                       THEN Some(generateSpeech(story.storyboard.audio_text))
                       ELSE audioUrl
        /\ imageUrl' = IF image = "fulfilled"
                       THEN Some(generateIllustration(story.visuals.image_prompt))
                       ELSE imageUrl
        /\ appState' = "PLAYING"
        /\ calls' = Return(c)
        /\ finished' = Finish(c, "fulfilled", audio, image)

\* the continuation of Promise.allSettled: lines 57-73
MediaJoin(c, audio, image) ==
    LET story == c.story[1]
    IN  /\ audioUrl' = IF audio = "fulfilled"
                       THEN Some(generateSpeech(story.storyboard.audio_text))
                       ELSE audioUrl
        /\ imageUrl' = IF image = "fulfilled"
                       THEN Some(generateIllustration(story.visuals.image_prompt))
                       ELSE imageUrl
        /\ appState' = "PLAYING"
        /\ calls' = Return(c)
        /\ finished' = consoleError(Finish(c, "fulfilled", audio, image),
                                    (IF audio = "fulfilled" THEN {}
                                     ELSE {"Audio generation failed:"}) \cup
                                    (IF image = "fulfilled" THEN {}
                                     ELSE {"Image generation failed:"}))

\* the audio is shown as soon as the speech call fulfils
SpeechSettlesAppliesAtOnce(c, outcome) ==
    /\ c.pc = "media"
    /\ c.audio = "pending"
    /\ IF c.image = "pending"
       THEN /\ calls' = Step(c, [c EXCEPT !.audio = outcome])
            /\ audioUrl' = IF outcome = "fulfilled"
                           THEN Some(generateSpeech(c.story[1].storyboard.audio_text))
                           ELSE audioUrl
            /\ UNCHANGED <<imageUrl, appState, finished>>
       ELSE MediaJoin(c, outcome, c.image)
    /\ UNCHANGED <<storyData, errorMsg, previousTopics, currentFile, currentContext,
                   turns, started, appended, submitted>>

\* generateSpeech(story.storyboard.audio_text) settles
SpeechSettles(c, outcome) ==
    /\ c.pc = "media"
    /\ c.audio = "pending"
    /\ IF c.image = "pending"
       THEN /\ calls' = Step(c, [c EXCEPT !.audio = outcome])
            /\ UNCHANGED <<audioUrl, imageUrl, appState, finished>>
       ELSE MediaJoin(c, outcome, c.image)
    /\ UNCHANGED <<storyData, errorMsg, previousTopics, currentFile, currentContext,
                   turns, started, appended, submitted>>

\* generateIllustration(story.visuals.image_prompt) settles
IllustrationSettles(c, outcome) ==
    /\ c.pc = "media"
    /\ c.image = "pending"
    /\ IF c.audio = "pending"
       THEN /\ calls' = Step(c, [c EXCEPT !.image = outcome])
            /\ UNCHANGED <<audioUrl, imageUrl, appState, finished>>
       ELSE MediaJoin(c, c.audio, outcome)
    /\ UNCHANGED <<storyData, errorMsg, previousTopics, currentFile, currentContext,
                   turns, started, appended, submitted>>

Outcomes == {"fulfilled", "rejected"}

-----------------------------------------------------------------------------
(* The orchestrator with reset() callable in every state, also while a turn *)
(* is in flight; turns are started from the views that offer them.          *)

\* InputSection is rendered only in IDLE
Submit ==
    /\ appState = "IDLE"
    /\ \E r \in Submissions :
         handleStartAdventure(r.file, r.question, r.context)
    /\ UNCHANGED io

\* StoryView is rendered only in PLAYING with a story; it offers its suggested questions
FollowUp ==
    /\ appState = "PLAYING"
    /\ storyData # NULL
    /\ \E i \in DOMAIN storyData[1].storyboard.suggested_questions :
         handleSuggestedQuestionClick(storyData[1].storyboard.suggested_questions[i])
    /\ UNCHANGED io

Reset == handleReset /\ UNCHANGED io

TextDone ==
    /\ \E c \in Pending, resp \in TextResponses : TextSettles(c, resp)
    /\ UNCHANGED io

SpeechDone ==
    /\ \E c \in Pending, o \in Outcomes : SpeechSettles(c, o)
    /\ UNCHANGED io

IllustrationDone ==
    /\ \E c \in Pending, o \in Outcomes : IllustrationSettles(c, o)
    /\ UNCHANGED io

Next ==
    \/ Submit
    \/ FollowUp
    \/ Reset
    \/ TextDone
    \/ SpeechDone
    \/ IllustrationDone

Spec == Init /\ [][Next]_vars

-----------------------------------------------------------------------------
(* The handlers as the rendered application exposes them (lines 116-148) *)

\* a reset button that is offered in every view, the loading view included
UIResetAnyState == handleReset /\ UNCHANGED io

\* "Start over" in StoryView, "Try Again" in the error card
UIReset ==
    /\ \/ appState = "PLAYING" /\ storyData # NULL
       \/ appState = "ERROR"
    /\ handleReset
    /\ UNCHANGED io

NextUI ==
    \/ Submit
    \/ FollowUp
    \/ UIReset
    \/ TextDone
    \/ SpeechDone
    \/ IllustrationDone

SpecUI == Init /\ [][NextUI]_vars

\* every call that has been issued settles: the continuation of an await runs once
\* its promise has settled
SpecUIFair ==
    SpecUI /\ WF_vars(TextDone) /\ WF_vars(SpeechDone) /\ WF_vars(IllustrationDone)

-----------------------------------------------------------------------------
(* The rendered application with the form's contents and the responses of   *)
(* the text and speech calls in full: io records the last of them and what   *)
(* the program made of it.                                                  *)

\* the contents of the form of InputSection when it is submitted: those of
\* Submissions, and questions that are empty or all blanks
FormInputs ==
    Submissions \cup
    { [file |-> NULL, question |-> "", context |-> EmptyContext],
      [file |-> Some("img1"), question |-> "   ",
       context |-> [childName |-> "Ana", characterName |-> "Fluff"]] }

\* question.trim() on the questions of FormInputs: a question of blanks only
\* becomes the empty string, the others have no blanks at their ends
trimQuestion(question) == IF question \in {"", "   "} THEN "" ELSE question

\* a handler that passes every submission on
handleSubmitUnguarded(file, question, context) ==
    handleStartAdventure(file, question, context)

\* InputSection.handleSubmit (StoryView.tsx lines 328-333)
handleSubmit(file, question, context) ==
    IF trimQuestion(question) # ""
    THEN handleStartAdventure(file, question, context)
    ELSE UNCHANGED appVars

\* the form is submitted; io records the question it held
SubmitForm ==
    /\ appState = "IDLE"
    /\ \E f \in FormInputs :
         /\ handleSubmit(f.file, f.question, f.context)
         /\ io' = [fn |-> "handleSubmit", question |-> f.question]

\* generateSpeech settles with what it makes of the response resp
SpeechResponds ==
    \E c \in Pending, resp \in SpeechResponses :
        LET r == speechAudio(resp)
        IN  /\ SpeechSettles(c, IF r.ok THEN "fulfilled" ELSE "rejected")
            /\ io' = [fn |-> "generateSpeech", resp |-> resp, out |-> r]

\* response.text of the text-generation call, also with documents that parse but
\* lack a field of StoryResponse
TextResponsesIO ==
    TextResponses \cup {[throws |-> FALSE, text |-> <<"C">>],
                        [throws |-> FALSE, text |-> <<FenceOpen, "D", FenceClose>>]}

\* generateStory settles with what it makes of the response resp
TextResponds ==
    \E c \in Pending, resp \in TextResponsesIO :
        /\ TextSettles(c, resp)
        /\ io' = [fn |-> "generateStory", resp |-> resp, out |-> generateStory(resp)]

NextIO ==
    \/ SubmitForm
    \/ FollowUp
    \/ UIReset
    \/ TextResponds
    \/ SpeechResponds
    \/ IllustrationDone

SpecIO == Init /\ [][NextIO]_vars

-----------------------------------------------------------------------------
(* The request of generateStory built for every combination of arguments of *)
(* the bounded sets                                                         *)

ImageFiles == {NULL, Some("img1"), Some("img2")}
Questions == {"q1", "q2"}
ChildContexts == [childName : {"", "Ana"}, characterName : {"", "Fluff"}]
Concepts == {"gravity", "rain"}

\* the context window holds at most three topics
TopicSnapshots == SeqsUpTo(Concepts, 3)

InitRequest ==
    /\ InitApp
    /\ io \in {[fn |-> "generateStory", imageFile |-> f, question |-> q,
                childContext |-> x, previousTopics |-> t, out |-> NULL] :
                  f \in ImageFiles, q \in Questions, x \in ChildContexts,
                  t \in TopicSnapshots}

\* generateStory reaches ai.models.generateContent with the parts built
BuildRequest ==
    /\ io.out = NULL
    /\ io' = [io EXCEPT !.out = Some([ok |-> TRUE,
                                      parts |-> requestParts(io.imageFile, io.question,
                                                             io.childContext,
                                                             io.previousTopics)])]
    /\ UNCHANGED appVars

\* reader.onerror: fileToGenerativePart rejects and no request is built
ReadFails ==
    /\ io.out = NULL
    /\ io.imageFile # NULL
    /\ io' = [io EXCEPT !.out = Some([ok |-> FALSE, parts |-> <<>>])]
    /\ UNCHANGED appVars

NextRequest == BuildRequest \/ ReadFails

SpecRequest == InitRequest /\ [][NextRequest]_vars

-----------------------------------------------------------------------------
(* The response handling of generateStory applied to every body of the *)
(* bounded set                                                         *)

MaxText == 3       \* tokens of a response body

BodyTokens == {FenceOpen, FenceClose, WhiteSpace, "junk"} \cup Docs \cup PartialDocs

InitParse ==
    /\ InitApp
    /\ io \in {[fn |-> "parse", text |-> t, out |-> NULL] :
                  t \in SeqsUpTo(BodyTokens, MaxText)}

\* lines 176-181 on the body held in io
ParseResponse ==
    /\ io.out = NULL
    /\ io' = [io EXCEPT !.out = Some([stripped |-> StripFences(io.text),
                                      result |-> generateStory([throws |-> FALSE,
                                                                text |-> io.text])])]
    /\ UNCHANGED appVars

NextParse == ParseResponse

SpecParse == InitParse /\ [][NextParse]_vars

-----------------------------------------------------------------------------
(* pcmToWav applied to every payload and sample rate of the bounded sets *)

InitWav ==
    /\ InitApp
    /\ io \in {[fn |-> "pcmToWav", pcmData |-> p, sampleRate |-> r, out |-> NULL] :
                  p \in PcmInputs, r \in SampleRates}

Encode ==
    /\ io.out = NULL
    /\ io' = [io EXCEPT !.out = Some(pcmToWav(io.pcmData, io.sampleRate))]
    /\ UNCHANGED appVars

NextWav == Encode

SpecWav == InitWav /\ [][NextWav]_vars

-----------------------------------------------------------------------------
(* Properties *)

Min(a, b) == IF a <= b THEN a ELSE b

\* the last n elements of seq, in order
LastOf(seq, n) == SubSeq(seq, Len(seq) - Min(Len(seq), n) + 1, Len(seq))

ResultVars == <<appState, storyData, audioUrl, imageUrl, errorMsg, previousTopics>>

\* an invocation started before the last reset takes a step
StaleCompletion ==
    \E c \in Pending : c.stale /\ CopiesIn(c, calls') < CopiesIn(c, calls)

\* the invocation c returns in this step
Returns(c) ==
    /\ CopiesIn(c, calls') < CopiesIn(c, calls)
    /\ BagCardinality(calls') < BagCardinality(calls)

\* the text call of the invocation c rejects
TextFailure(c) == c.pc = "text" /\ Returns(c)

\* a step of reset()
ResetStep ==
    ~started' /\ turns' = turns /\ finished' = NULL /\ calls' = BagOfAll(Stale, calls)

\* C1: after N text calls have succeeded since the context window was last
\* empty (no reset in between), the window has length min(N, 3) and holds the
\* educational concepts of the last min(N, 3) of them, in the order they succeeded.
C1_ContextCap ==
    /\ Len(previousTopics) = Min(Len(appended), 3)
    /\ previousTopics = LastOf(appended, 3)

C1_Witness ==
    /\ Len(appended) = 4
    /\ appended[1] # appended[4]
    /\ previousTopics = <<appended[2], appended[3], appended[4]>>

\* C2: in every reachable state the context window holds at most 3 topic labels.
C2_AtMostThreeTopics == Len(previousTopics) <= 3

C2_Witness == Len(appended) > 3 /\ Len(previousTopics) = 3 /\ appState = "PLAYING"

\* C3: a reset issued while a turn is in flight is final: as long as no turn has
\* been started since the last reset, the state is Idle and StoryResult, audioUrl,
\* imageUrl, the error message and the context window are empty, whatever results
\* of earlier turns arrive.
C3_ResetIsFinal ==
    ~started =>
        /\ appState = "IDLE"
        /\ storyData = NULL
        /\ audioUrl = NULL
        /\ imageUrl = NULL
        /\ errorMsg = NULL
        /\ previousTopics = <<>>

\* C4: a completion is applied only to the turn that issued it: when a new turn
\* has been started after a reset, a result of a turn from before the reset
\* changes neither the state, StoryResult, the media fields, the error message
\* nor the context window.
C4_TurnIsolation ==
    [][(started /\ StaleCompletion) => UNCHANGED ResultVars]_vars

\* C5: when the text call of a turn fails, the turn ends in Error and the context
\* window is what it was when the call was made; no topic is appended.
C5_TextFailureKeepsContext ==
    [][\A c \in Pending : TextFailure(c) =>
            /\ appState' = "ERROR"
            /\ previousTopics' = previousTopics
            /\ previousTopics' = c.prevTopics]_vars

C5_Witness ==
    /\ appState = "ERROR"
    /\ finished # NULL
    /\ finished[1].text = "rejected"
    /\ Len(previousTopics) = 2

\* C6: after a turn whose text call failed no StoryResult is retained: in Error
\* the stored StoryResult is null, also when the failed turn is a follow-up.
C6_ErrorKeepsNoStory == appState = "ERROR" => storyData = NULL

\* C7: after a successful text call each media field is decided by its own call:
\* audioUrl is present iff the speech call succeeded and imageUrl is present iff
\* the illustration call succeeded.
C7_MediaIndependent ==
    (appState = "PLAYING" /\ finished # NULL) =>
        LET story == storyData[1]
        IN  /\ finished[1].text = "fulfilled"
            /\ audioUrl = IF finished[1].audio = "fulfilled"
                          THEN Some(generateSpeech(story.storyboard.audio_text))
                          ELSE NULL
            /\ imageUrl = IF finished[1].image = "fulfilled"
                          THEN Some(generateIllustration(story.visuals.image_prompt))
                          ELSE NULL

C7_Witness ==
    /\ appState = "PLAYING"
    /\ finished # NULL
    /\ finished[1].audio = "rejected"
    /\ finished[1].image = "fulfilled"
    /\ audioUrl = NULL
    /\ imageUrl # NULL

\* C8: once the text call of a turn has succeeded the turn ends in Playing and
\* never in Error, whatever the media calls return; when both fail, Playing is
\* reached with audioUrl and imageUrl absent and the StoryResult present.
C8_TextSuccessEndsPlaying ==
    [][/\ appState = "GENERATING_MEDIA" => appState' \in {"GENERATING_MEDIA", "PLAYING"}
       /\ \A c \in Pending :
            (c.pc = "media" /\ Returns(c)) =>
                /\ appState' = "PLAYING"
                /\ storyData' = c.story
                /\ (finished'[1].audio = "rejected" /\ finished'[1].image = "rejected")
                      => (audioUrl' = NULL /\ imageUrl' = NULL)]_vars

C8_Witness ==
    /\ appState = "PLAYING"
    /\ finished # NULL
    /\ finished[1].audio = "rejected"
    /\ finished[1].image = "rejected"
    /\ audioUrl = NULL
    /\ imageUrl = NULL
    /\ storyData # NULL

\* C9: reset from any state leaves the session in Idle with StoryResult null,
\* audioUrl and imageUrl absent, the error message null, the retained turn state
\* cleared and the context window empty.
C9_ResetClearsSession ==
    [][ResetStep =>
          /\ appState' = "IDLE"
          /\ storyData' = NULL
          /\ audioUrl' = NULL
          /\ imageUrl' = NULL
          /\ errorMsg' = NULL
          /\ currentFile' = NULL
          /\ currentContext' = EmptyContext
          /\ previousTopics' = <<>>]_vars

C9_Witness ==
    /\ appState = "IDLE"
    /\ previousTopics = <<>>
    /\ storyData = NULL
    /\ \E c \in Pending : c.stale /\ c.pc = "media"

\* C10: the text request of a follow-up carries the image and personalization of
\* the most recent top-level submission unchanged, together with a question the
\* story on display suggested.
C10_FollowUpReusesInputs ==
    \A c \in Pending :
        (c.pc = "text" /\ c.followUp) =>
            /\ submitted # NULL
            /\ c.file = submitted[1].file
            /\ c.context = submitted[1].context
            /\ storyData # NULL
            /\ \E i \in DOMAIN storyData[1].storyboard.suggested_questions :
                   c.question = storyData[1].storyboard.suggested_questions[i]

C10_Witness ==
    \E c \in Pending :
        /\ c.pc = "text"
        /\ c.followUp
        /\ c.file = Some("img1")
        /\ c.context.childName = "Ana"
        /\ c.question = "q2"


\* the len bytes of the buffer w from offset off on
Field(w, off, len) == [i \in 1 .. len |-> w[off + i - 1]]

\* the four little-endian bytes of a natural number below 2^31
LE4(v) == <<v % 256, (v \div 256) % 256, (v \div 65536) % 256, (v \div 16777216) % 256>>

\* the low and the high 16 bits of a number given by at most four digits
Lo16(d) == LowBytes(d, 4)[1] + 256 * LowBytes(d, 4)[2]
Hi16(d) == LowBytes(d, 4)[3] + 256 * LowBytes(d, 4)[4]

\* the four-byte field f holds exactly twice the number r
IsTwice(f, r) ==
    /\ Lo16(f) = (2 * Lo16(r)) % 65536
    /\ Hi16(f) = 2 * Hi16(r) + (2 * Lo16(r)) \div 65536

\* the four-byte field f holds twice the number r modulo 2^32
IsTwiceMod32(f, r) ==
    /\ Lo16(f) = (2 * Lo16(r)) % 65536
    /\ Hi16(f) = (2 * Hi16(r) + (2 * Lo16(r)) \div 65536) % 65536

\* the encoder has been applied to the payload and sample rate held in io
Encoded == io # NULL /\ io.fn = "pcmToWav" /\ io.out # NULL

\* C13: for every PCM byte sequence of length n and every sample rate the encoder
\* returns exactly 44 + n bytes: bytes 0-3 are "RIFF", bytes 4-7 are 36 + n in
\* little-endian, bytes 8-11 are "WAVE", bytes 36-39 are "data", bytes 40-43 are n
\* in little-endian, and bytes 44 .. 44+n-1 are the input bytes in order.
C13_WavLayout ==
    Encoded =>
        LET n == Len(io.pcmData)
            w == io.out[1]
        IN  /\ DOMAIN w = 0 .. (44 + n - 1)
            /\ Field(w, 0, 4) = <<82, 73, 70, 70>>
            /\ Field(w, 4, 4) = LE4(36 + n)
            /\ Field(w, 8, 4) = <<87, 65, 86, 69>>
            /\ Field(w, 36, 4) = <<100, 97, 116, 97>>
            /\ Field(w, 40, 4) = LE4(n)
            /\ \A i \in 1 .. n : w[44 + i - 1] = io.pcmData[i]

C13_Witness ==
    Encoded /\ Len(io.pcmData) = 3 /\ io.pcmData[1] # io.pcmData[3]

\* the fields of the format chunk that do not depend on the sample rate
FmtFixedFields(w) ==
    /\ Field(w, 12, 4) = <<102, 109, 116, 32>>
    /\ Field(w, 16, 4) = <<16, 0, 0, 0>>
    /\ Field(w, 20, 2) = <<1, 0>>
    /\ Field(w, 22, 2) = <<1, 0>>
    /\ Field(w, 32, 2) = <<2, 0>>
    /\ Field(w, 34, 2) = <<16, 0>>

\* C14 as stated: for every sample rate that fits in 32 bits the format chunk holds
\* size 16, format tag 1, 1 channel, the sample rate, a byte rate equal to
\* sampleRate * 2, block align 2 and 16 bits per sample, all little-endian.
C14_FmtChunkAnyRate ==
    Encoded =>
        LET w == io.out[1]
        IN  /\ FmtFixedFields(w)
            /\ Field(w, 24, 4) = LowBytes(io.sampleRate, 4)
            /\ IsTwice(Field(w, 28, 4), io.sampleRate)

\* C14 amended: the format chunk holds size 16, format tag 1, 1 channel, the sample
\* rate, block align 2 and 16 bits per sample for every sample rate that fits in 32
\* bits; the byte-rate field holds sampleRate * 2 modulo 2^32, which is sampleRate * 2
\* exactly when the sample rate is below 2^31 (24000 gives 48000).
C14_FmtChunk ==
    Encoded =>
        LET w == io.out[1]
        IN  /\ FmtFixedFields(w)
            /\ Field(w, 24, 4) = LowBytes(io.sampleRate, 4)
            /\ IsTwiceMod32(Field(w, 28, 4), io.sampleRate)
            /\ Hi16(io.sampleRate) < 32768 => IsTwice(Field(w, 28, 4), io.sampleRate)
            /\ io.sampleRate = <<192, 93>> => Field(w, 28, 4) = <<128, 187, 0, 0>>

C14_Witness ==
    Encoded /\ io.sampleRate = <<255, 255, 255, 127>>
            /\ Field(io.out[1], 28, 4) = <<254, 255, 255, 255>>


\* the speech call of the turn that returned last answered with audio data that
\* decodes to an odd number of bytes
OddPcmAnswered ==
    /\ finished # NULL
    /\ finished[1].audio # "none"
    /\ io # NULL
    /\ io.fn = "generateSpeech"
    /\ ~io.resp.throws
    /\ io.resp.data # NULL
    /\ LET n == Len(io.resp.data[1])
       IN  n % 4 # 1 /\ ((n * 6) \div 8) % 2 = 1

\* C11: a malformed PCM payload (an odd number of bytes) is treated as a failure of
\* the speech call: the turn does not end in Error, the call counts as rejected and
\* audioUrl stays absent when the turn is Playing.
C11_OddPcmIsFailure ==
    OddPcmAnswered =>
        /\ appState = "PLAYING"
        /\ finished[1].audio = "rejected"
        /\ audioUrl = NULL


\* the fields the orchestrator and the story view read
HasRequiredFields(story) ==
    /\ "meta" \in DOMAIN story
    /\ "educational_concept" \in DOMAIN story.meta
    /\ "storyboard" \in DOMAIN story
    /\ "audio_text" \in DOMAIN story.storyboard
    /\ "visuals" \in DOMAIN story
    /\ "image_prompt" \in DOMAIN story.visuals

\* the text call settles in this step with a document that parses as JSON and lacks
\* a required field
PartialStoryAnswered ==
    /\ io' # io
    /\ io'.fn = "generateStory"
    /\ io'.out.ok
    /\ ~HasRequiredFields(io'.out.story[1])

\* C12: a text response that parses as JSON but lacks a required field is a request
\* failure: the turn ends in Error, the response is not stored as the story, nothing
\* is appended to the context window and Playing is not reached.
C12_PartialStoryIsFailure ==
    [][PartialStoryAnswered =>
          /\ appState' = "ERROR"
          /\ errorMsg' # NULL
          /\ storyData' = storyData
          /\ previousTopics' = previousTopics]_vars


\* a request has been built from the arguments held in io
Built == io # NULL /\ io.fn = "generateStory" /\ io.out # NULL /\ io.out[1].ok

\* the positions of the parts of the built request that carry the named key
PartsWith(key) ==
    {i \in DOMAIN io.out[1].parts : key \in DOMAIN io.out[1].parts[i]}

\* the elements of the sequence s
Range(s) == {s[i] : i \in DOMAIN s}

\* C15: in every built text request the parts are ordered image first: with an image
\* there are exactly two parts, the inline image with its MIME type and then the
\* text; without an image there is exactly one part, the text.
C15_ImageFirst ==
    Built =>
        LET parts == io.out[1].parts
        IN  IF io.imageFile # NULL
            THEN /\ Len(parts) = 2
                 /\ DOMAIN parts[1] = {"inlineData"}
                 /\ parts[1].inlineData.mimeType = FileType(io.imageFile[1])
                 /\ DOMAIN parts[2] = {"text"}
            ELSE /\ Len(parts) = 1
                 /\ DOMAIN parts[1] = {"text"}

C15_Witness == Built /\ io.imageFile = Some("img2") /\ PartsWith("inlineData") # {}

\* C16: every built request carries a context object whose child name is the
\* supplied name, or "Friend" when that is empty, whose character name is the
\* supplied one or empty, and whose prev_topics is the snapshot passed in, in order.
C16_ContextObject ==
    Built =>
        /\ PartsWith("text") # {}
        /\ \A i \in PartsWith("text") :
             LET text == io.out[1].parts[i].text
                 name == io.childContext.childName
             IN  /\ Len(text) >= 4
                 /\ text[4] = << "{",
                                 <<"child_name", IF name = "" THEN "Friend" ELSE name>>,
                                 <<"character_name", io.childContext.characterName>>,
                                 <<"prev_topics", io.previousTopics>>,
                                 "}" >>

C16_Witness ==
    Built /\ io.childContext.childName = "" /\ io.childContext.characterName = "Fluff"
          /\ io.previousTopics = <<"rain", "gravity", "rain">>

\* C17: the instruction to invent a character is appended to the request text if and
\* only if the request has no image.
C17_InventCharacterIffNoImage ==
    Built =>
        \A i \in PartsWith("text") :
            LET text == io.out[1].parts[i].text
            IN  /\ (InventCharacterNote \in Range(text)) <=> (PartsWith("inlineData") = {})
                /\ InventCharacterNote \in Range(text) => text[Len(text)] = InventCharacterNote

C17_Witness ==
    Built /\ io.imageFile = NULL /\ InventCharacterNote \in Range(io.out[1].parts[1].text)


\* the body held in io has been handled
Parsed == io # NULL /\ io.fn = "parse" /\ io.out # NULL

\* C18: a response body that is a JSON document wrapped in a ```json fenced block
\* parses to the same story as the bare document, and a bare JSON document is left
\* unchanged by fence stripping.
C18_FenceStripping ==
    Parsed =>
        \A d \in Docs \cup PartialDocs :
            /\ io.text \in {<<d>>, <<FenceOpen, d, FenceClose>>} =>
                  io.out[1].result = [ok |-> TRUE, story |-> Some(StoryOf(d))]
            /\ io.text = <<d>> => io.out[1].stripped = <<d>>

C18_Witness ==
    Parsed /\ io.text = <<FenceOpen, "B", FenceClose>> /\ io.out[1].result.ok


\* the text call of the turn in progress, or of the turn that returned last, succeeded
TextSucceeded ==
    \/ \E c \in Pending : c.pc = "media"
    \/ finished # NULL /\ finished[1].text = "fulfilled"

\* C19: every failure of a media call is recorded as a diagnostic and never shown to
\* the user: it does not set errorMsg, which is null for the whole of a turn whose
\* text call succeeded.
C19_MediaFailureLoggedNotShown ==
    /\ TextSucceeded => errorMsg = NULL /\ appState # "ERROR"
    /\ finished # NULL =>
         /\ finished[1].audio = "rejected" =>
               "Audio generation failed:" \in finished[1].logged
         /\ finished[1].image = "rejected" =>
               "Image generation failed:" \in finished[1].logged

C19_Witness ==
    /\ appState = "PLAYING"
    /\ finished # NULL
    /\ finished[1].audio = "rejected"
    /\ finished[1].image = "rejected"
    /\ finished[1].logged = {"Audio generation failed:", "Image generation failed:"}
    /\ errorMsg = NULL


\* the form is submitted in this step with a question that is empty or all blanks
BlankSubmission ==
    /\ io' # io
    /\ io'.fn = "handleSubmit"
    /\ io'.question \in {"", "   "}

\* C20: a top-level submission whose question is empty or only white space is not
\* accepted: no generation request is issued and the orchestrator state, the
\* retained turn state and the context window are unchanged.
C20_BlankQuestionRejected ==
    [][BlankSubmission =>
          /\ calls' = calls
          /\ turns' = turns
          /\ UNCHANGED <<appState, storyData, audioUrl, imageUrl, errorMsg>>
          /\ UNCHANGED <<currentFile, currentContext, previousTopics>>]_vars

C20_Witness ==
    /\ io # NULL
    /\ io.fn = "handleSubmit"
    /\ io.question = "   "
    /\ appState = "IDLE"
    /\ calls = EmptyBag
    /\ turns > 0


\* a turn starts in this step
TurnStarts == turns' = turns + 1

\* C21: starting a turn (submit or follow-up) moves the state to Analyzing and clears
\* audioUrl, imageUrl and the error message before the text call returns; while the
\* turn is in progress none of them is set, and a media value present once the turn
\* is Playing was produced by that turn.
C21_TurnStartClears ==
    [][/\ TurnStarts =>
            /\ appState' = "ANALYZING"
            /\ audioUrl' = NULL /\ imageUrl' = NULL /\ errorMsg' = NULL
       /\ appState' \in {"ANALYZING", "GENERATING_MEDIA"} =>
            audioUrl' = NULL /\ imageUrl' = NULL /\ errorMsg' = NULL
       /\ appState' = "PLAYING" =>
            /\ errorMsg' = NULL
            /\ audioUrl' # NULL => finished' # NULL /\ finished'[1].audio = "fulfilled"
            /\ imageUrl' # NULL => finished' # NULL /\ finished'[1].image = "fulfilled"
      ]_vars

\* a follow-up turn is analysing while the story of the turn before is still held
C21_Witness ==
    /\ appState = "ANALYZING"
    /\ storyData # NULL
    /\ turns > 1
    /\ audioUrl = NULL /\ imageUrl = NULL /\ errorMsg = NULL


\* the invocation d has issued its speech and illustration calls in this step
MediaIssued(d) ==
    /\ d.pc = "media"
    /\ d.audio = "pending" /\ d.image = "pending"
    /\ CopiesIn(d, calls') > CopiesIn(d, calls)

\* C22: within a turn the speech and illustration calls are issued only after the
\* text call of that turn has succeeded and the state is GeneratingMedia, with that
\* turn's audio_text and image_prompt as inputs; when the text call fails, neither
\* media call is issued.
C22_MediaAfterText ==
    [][/\ \A d \in BagToSet(calls') :
            MediaIssued(d) =>
                /\ \E c \in Pending : c.pc = "text" /\ CopiesIn(c, calls') < CopiesIn(c, calls)
                /\ appState' = "GENERATING_MEDIA"
                /\ storyData' # NULL
                /\ d.story = storyData'
       /\ \A c \in Pending :
            TextFailure(c) => \A d \in BagToSet(calls') : d.pc # "media"
       /\ \A d \in BagToSet(calls') :
            d.pc = "media" =>
                /\ appState' = "GENERATING_MEDIA"
                /\ d.story = storyData'
       /\ (appState' = "PLAYING" /\ audioUrl' # NULL) =>
            audioUrl' = Some(<<"blob:audio/wav", storyData'[1].storyboard.audio_text>>)
       /\ (appState' = "PLAYING" /\ imageUrl' # NULL) =>
            imageUrl' = Some(<<"data:image/png;base64", storyData'[1].visuals.image_prompt>>)
      ]_vars

\* the media calls of a follow-up turn are in flight with the texts of its own story
C22_Witness ==
    /\ appState = "GENERATING_MEDIA"
    /\ turns > 1
    /\ \E d \in Pending : d.pc = "media" /\ d.story = storyData /\ d.audio = "pending"


\* C23: provided every issued call eventually settles, every started turn eventually
\* reaches a terminal state, Playing or Error; it does not stay in Analyzing or
\* GeneratingMedia forever.
C23_TurnTerminates ==
    (appState \in {"ANALYZING", "GENERATING_MEDIA"}) ~> (appState \in {"PLAYING", "ERROR"})

\* a turn whose media calls both failed has ended
C23_Witness ==
    /\ appState = "PLAYING"
    /\ calls = EmptyBag
    /\ finished # NULL
    /\ finished[1].audio = "rejected" /\ finished[1].image = "rejected"
    /\ turns >= 2


\* the values of AppState (types.ts line 25)
AppStates == {"IDLE", "ANALYZING", "GENERATING_MEDIA", "PLAYING", "ERROR"}

\* the changes of state the claim allows
AllowedChanges ==
    ({"IDLE", "PLAYING", "ERROR"} \X {"ANALYZING"})
    \cup {<<"ANALYZING", "GENERATING_MEDIA">>, <<"ANALYZING", "ERROR">>,
          <<"GENERATING_MEDIA", "PLAYING">>, <<"GENERATING_MEDIA", "ERROR">>}
    \cup (AppStates \X {"IDLE"})

\* C24: every change of the orchestrator state is one of: Idle, Playing or Error to
\* Analyzing, Analyzing to GeneratingMedia, Analyzing to Error, GeneratingMedia to
\* Playing, GeneratingMedia to Error, or any state to Idle; Playing is never entered
\* directly from Idle or Analyzing.
C24_AllowedChanges ==
    [][/\ appState' \in AppStates
       /\ appState' # appState => <<appState, appState'>> \in AllowedChanges]_vars


\* the invocation whose calls are counted in n has made one text call and at most
\* one call of each media service
NoRetry(n) == n.text = 1 /\ n.speech <= 1 /\ n.image <= 1

\* C25: no call is retried: each turn issues exactly one text-generation call and at
\* most one speech call and one illustration call, whatever the calls return; a turn
\* whose text call is pending or has failed has issued no media call.
C25_NoRetry ==
    /\ \A c \in Pending :
         /\ NoRetry(c.issued)
         /\ c.pc = "text" => c.issued.speech = 0 /\ c.issued.image = 0
    /\ finished # NULL =>
         /\ NoRetry(finished[1].issued)
         /\ finished[1].text = "rejected" =>
               finished[1].issued.speech = 0 /\ finished[1].issued.image = 0

\* a turn whose text call failed has ended after that one call
C25_Witness ==
    /\ appState = "ERROR"
    /\ finished # NULL
    /\ finished[1].text = "rejected"
    /\ finished[1].issued = [text |-> 1, speech |-> 0, image |-> 0]
    /\ turns >= 2


\* a media value is put in place in this step
MediaApplied ==
    \/ audioUrl' # audioUrl /\ audioUrl' # NULL
    \/ imageUrl' # imageUrl /\ imageUrl' # NULL

\* C26: the media results are applied together only after both calls have settled:
\* while the state is Analyzing or GeneratingMedia both audioUrl and imageUrl are
\* absent, also when one call has succeeded and the other is still pending; they are
\* set in the step that ends the turn in Playing.
C26_MediaAppliedTogether ==
    [][/\ appState' \in {"ANALYZING", "GENERATING_MEDIA"} =>
            audioUrl' = NULL /\ imageUrl' = NULL
       /\ MediaApplied =>
            /\ appState = "GENERATING_MEDIA"
            /\ appState' = "PLAYING"
            /\ \E c \in Pending :
                 /\ c.pc = "media"
                 /\ Returns(c)
                 /\ c.audio # "pending" \/ c.image # "pending"
      ]_vars

\* the speech call has fulfilled, the illustration call is pending, nothing is shown
C26_Witness ==
    /\ appState = "GENERATING_MEDIA"
    /\ \E c \in Pending : c.pc = "media" /\ c.audio = "fulfilled" /\ c.image = "pending"
    /\ audioUrl = NULL
    /\ imageUrl = NULL


\* reset() takes the state back to Idle in this step
ResetsToIdle == appState # "IDLE" /\ appState' = "IDLE"

\* C27: with submit offered only in Idle, follow-up only in Playing and reset only in
\* Playing or Error, at most one turn is in flight at any time: no turn starts and
\* no reset happens while the state is Analyzing or GeneratingMedia.
C27_SingleFlight ==
    [][/\ BagCardinality(calls') <= 1
       /\ \A c \in BagToSet(calls') : ~c.stale
       /\ (calls' # EmptyBag) <=> (appState' \in {"ANALYZING", "GENERATING_MEDIA"})
       /\ (TurnStarts \/ ResetsToIdle) =>
            /\ appState \notin {"ANALYZING", "GENERATING_MEDIA"}
            /\ calls = EmptyBag
      ]_vars

\* the third turn of a run is the only one in flight
C27_Witness ==
    /\ appState = "GENERATING_MEDIA"
    /\ turns >= 3
    /\ BagCardinality(calls) = 1


\* the invocations whose text request is with the service
AwaitingText == {c \in Pending : c.pc = "text" /\ ~c.stale}

StartedNow == {c \in BagToSet(calls') : c.pc = "text" /\ CopiesIn(c, calls') > CopiesIn(c, calls)}

\* C29: the retained turn state (image and personalization) changes only on a
\* top-level submission, which replaces it before the text call is made, and on a
\* reset, which clears it; follow-up turns and the completion of any text or media
\* call, success or failure, leave it unchanged.
C29_RetainedFrame ==
    [][ IF TurnStarts
        THEN /\ StartedNow # {}
             /\ \A c \in StartedNow :
                IF c.followUp
                THEN UNCHANGED <<currentFile, currentContext>>
                ELSE /\ c.file = currentFile'
                     /\ c.context = currentContext'
                     /\ submitted' = Some([file |-> currentFile',
                                           context |-> currentContext'])
        ELSE /\ <<currentFile, currentContext>>' # <<currentFile, currentContext>>
                   => ResetStep
             /\ (appState' = "IDLE" /\ ~started')
                   => (currentFile' = NULL /\ currentContext' = EmptyContext) ]_vars

\* a follow-up's text call has failed and the submitted image and names are retained
C29_Witness ==
    /\ appState = "ERROR"
    /\ turns >= 2
    /\ previousTopics # <<>>
    /\ finished # NULL
    /\ finished[1].text = "rejected"
    /\ currentFile # NULL
    /\ currentContext # EmptyContext
    /\ submitted = Some([file |-> currentFile, context |-> currentContext])


\* C30: with turns processed one at a time, errorMsg is non-null exactly when the
\* state is ERROR, and the message is then the fixed text of the catch block.
C30_ErrorMsgIffError ==
    /\ (errorMsg # NULL) <=> (appState = "ERROR")
    /\ errorMsg \in {NULL, Some(ErrorText)}

\* the error card is showing after a failed follow-up
C30_Witness ==
    /\ appState = "ERROR"
    /\ errorMsg = Some(ErrorText)
    /\ calls = EmptyBag
    /\ storyData # NULL
    /\ finished # NULL
    /\ finished[1].text = "rejected"


\* C31: whenever the state is GENERATING_MEDIA or PLAYING the stored story is non-null
\* and is the result of the current turn's text call (the story the turn's media
\* calls were issued for), so that the PLAYING state always has a story to display.
C31_StoryOfCurrentTurn ==
    appState \in {"GENERATING_MEDIA", "PLAYING"}
        => /\ storyData # NULL
           /\ \A c \in Pending : (~c.stale /\ c.pc = "media") => c.story = storyData

=============================================================================
